---- MODULE Spec2Model ----
(***************************************************************************)
(* State-machine model of the ZHVI map application (src/js/app.js).        *)
(*                                                                         *)
(* The browser runs one handler at a time.  Every action below is one      *)
(* handler run to completion, or one continuation of an async function     *)
(* after its await: renderState suspends at `await loadStateGeoJSON`, and  *)
(* searchZipCode suspends at `await renderState`.  The continuation of     *)
(* searchZipCode runs in the microtask that follows the continuation of    *)
(* the renderState call it awaits, so the two form one action.             *)
(*                                                                         *)
(* Prices are whole dollars.  A cell of the CSV that is empty, or a ZIP    *)
(* that has no row, is the price 0 (`data[year]` falsy).                   *)
(***************************************************************************)
EXTENDS Integers, Sequences, FiniteSets, TLC

(***************************************************************************)
(* Bounds of the model.                                                    *)
(***************************************************************************)
\* geometry fetches started in one run (each renderState call starts one)
MaxFetches == 2
\* interval timers that may be scheduled at once
MaxTimers == 2
\* features of the largest geometry file the styling is applied to
MaxFeatures == 21

(***************************************************************************)
(* Program constants.                                                      *)
(***************************************************************************)
MinYear == 2000
MaxYear == 2025
\* the ZIP length searchZipCode accepts
ZipLength == 5
\* COLORS.length: the palette is defined outside src/
PaletteSize == 7
\* calculatePriceRange's range for an empty price list
EmptyRangeMax == 1000000
\* calculateNationalPriceRanges' range for a year without prices
NationalDefaultMin == 50000

Years == MinYear..MaxYear

\* '#6b7280', the colour of a feature without price
NoDataColor == -1
\* COLORS[NaN]: no colour at all
UndefinedColor == -2

(***************************************************************************)
(* Static configuration and data delivered from outside the program.       *)
(***************************************************************************)
\* the value of the placeholder option of the state dropdown; also stands
\* for the initial null of AppState.currentState (both are falsy)
NoRegion == ""
\* keys of STATES
STATES == {"CA", "TX"}

Z90001 == <<9, 0, 0, 0, 1>>
Z90002 == <<9, 0, 0, 0, 2>>
Z90003 == <<9, 0, 0, 0, 3>>
Z90009 == <<9, 0, 0, 0, 9>>
Z73301 == <<7, 3, 3, 0, 1>>
Z75001 == <<7, 5, 0, 0, 1>>
Z99999 == <<9, 9, 9, 9, 9>>
\* no search was made by the caller of renderState
NoZip == <<>>

\* ZIP -> state abbreviation, NoRegion when the ZIP is in no state's range
getStateFromZip(zip) ==
    IF zip[1] = 9 /\ zip[2] = 0 THEN "CA"
    ELSE IF zip[1] = 7 THEN "TX"
    ELSE NoRegion

\* geojson.features of the file of a state, by feature.properties.ZCTA5CE10.
\* The dropdown of the model offers CA and TX; the file of WI is the large
\* input of the styling functions (SpecStyle).
Features(stateAbbr) ==
    IF stateAbbr = "CA" THEN {Z90001, Z90002, Z90003}
    ELSE IF stateAbbr = "TX" THEN {Z73301, Z75001}
    ELSE IF stateAbbr = "WI"
    THEN {<<5, 4, k \div 100, (k \div 10) % 10, k % 10>> : k \in 1..MaxFeatures}
    ELSE {}

\* the rows Papa.parse delivers: Zip_Code as written in the file, one price
\* column per year (0: empty cell); Zip_Code <<>> is a row without ZIP
RawRows ==
    { [Zip_Code |-> Z90001, price |-> [y \in Years |-> IF y < 2010 THEN 100000 ELSE 300000]],
      [Zip_Code |-> Z90002, price |-> [y \in Years |-> 400000]],
      [Zip_Code |-> Z90003, price |-> [y \in Years |-> IF y < 2010 THEN 0 ELSE 250000]],
      [Zip_Code |-> Z73301, price |-> [y \in Years |-> IF y = MaxYear THEN 0 ELSE 200000]],
      [Zip_Code |-> <<5, 0, 1>>, price |-> [y \in Years |-> 900000]],
      [Zip_Code |-> <<>>, price |-> [y \in Years |-> 123456]] }

\* String.prototype.padStart(5, '0')
RECURSIVE padStart(_)
padStart(zip) ==
    IF Len(zip) >= ZipLength THEN zip ELSE padStart(<<0>> \o zip)

\* AppState.zhviData after the `complete` callback of Papa.parse
LoadedData ==
    LET rows == {r \in RawRows : r.Zip_Code # <<>>}
    IN  [zip \in {padStart(r.Zip_Code) : r \in rows} |->
            (CHOOSE r \in rows : padStart(r.Zip_Code) = zip).price]

(***************************************************************************)
(* Pure functions.                                                         *)
(***************************************************************************)
\* `data && data[year]` followed by parseFloat and the test price > 0:
\* the price of a ZIP in a year, 0 when there is none
PriceOf(data, zip, year) ==
    IF zip \in DOMAIN data /\ year \in DOMAIN data[zip] /\ data[zip][year] > 0
    THEN data[zip][year]
    ELSE 0

\* prices.sort((a, b) => b - a): the comparator reversed
RECURSIVE SortPrices_descending(_, _, _)
SortPrices_descending(S, data, year) ==
    IF S = {} THEN <<>>
    ELSE LET z == CHOOSE z \in S :
                    \A w \in S : PriceOf(data, z, year) >= PriceOf(data, w, year)
         IN  <<PriceOf(data, z, year)>> \o SortPrices_descending(S \ {z}, data, year)

\* prices.sort((a, b) => a - b) over the prices pushed for the ZIPs of S
RECURSIVE SortPrices(_, _, _)
SortPrices(S, data, year) ==
    IF S = {} THEN <<>>
    ELSE LET z == CHOOSE z \in S :
                    \A w \in S : PriceOf(data, z, year) <= PriceOf(data, w, year)
         IN  <<PriceOf(data, z, year)>> \o SortPrices(S \ {z}, data, year)

\* Math.floor(n * pct / 100); exact for the list lengths of this model, where
\* n * 0.05, n * 0.5 and n * 0.95 are whole only for n = 0
PercentileIndex(n, pct) == (n * pct) \div 100

\* calculatePriceRange with the empty-list range of
\* calculateNationalPriceRanges
calculatePriceRange_nationalDefault(geojson, data, year) ==
    LET S      == {z \in Features(geojson) : PriceOf(data, z, year) > 0}
        prices == SortPrices(S, data, year)
        n      == Len(prices)
    IN  IF n = 0
        THEN [min |-> NationalDefaultMin, max |-> EmptyRangeMax, median |-> 0,
              lowest |-> 0, highest |-> 0, count |-> 0]
        ELSE [min     |-> prices[PercentileIndex(n, 5) + 1],
              max     |-> prices[PercentileIndex(n, 95) + 1],
              median  |-> prices[PercentileIndex(n, 50) + 1],
              lowest  |-> prices[1],
              highest |-> prices[n],
              count   |-> n]

calculatePriceRange(geojson, data, year) ==
    LET S      == {z \in Features(geojson) : PriceOf(data, z, year) > 0}
        prices == SortPrices(S, data, year)
        n      == Len(prices)
    IN  IF n = 0
        THEN [min |-> 0, max |-> EmptyRangeMax, median |-> 0,
              lowest |-> 0, highest |-> 0, count |-> 0]
        ELSE [min     |-> prices[PercentileIndex(n, 5) + 1],
              max     |-> prices[PercentileIndex(n, 95) + 1],
              median  |-> prices[PercentileIndex(n, 50) + 1],
              lowest  |-> prices[1],
              highest |-> prices[n],
              count   |-> n]

calculateNationalPriceRanges(data) ==
    [year \in Years |->
        LET S      == {z \in DOMAIN data : PriceOf(data, z, year) > 0}
            prices == SortPrices(S, data, year)
            n      == Len(prices)
        IN  IF n > 0
            THEN [min |-> prices[PercentileIndex(n, 5) + 1],
                  max |-> prices[PercentileIndex(n, 95) + 1]]
            ELSE [min |-> NationalDefaultMin, max |-> EmptyRangeMax]]

\* the range applyPriceRange stores in AppState.priceRange
applyPriceRange(stateRange, mode, national, year) ==
    IF mode = "national" /\ year \in DOMAIN national
    THEN [min |-> national[year].min, max |-> national[year].max]
    ELSE [min |-> stateRange.min, max |-> stateRange.max]

\* the index into COLORS, or NoDataColor, or UndefinedColor.  With
\* max = min the division yields +Infinity, -Infinity or NaN, which
\* Math.min / Math.max turn into the last index, index 0 or NaN.
getColor(price, range) ==
    IF price = 0 THEN NoDataColor
    ELSE IF range.max = range.min
         THEN IF price > range.min THEN PaletteSize - 1
              ELSE IF price < range.min THEN 0
              ELSE UndefinedColor
    ELSE LET num   == (price - range.min) * PaletteSize
             den   == range.max - range.min
             floor == IF den > 0 THEN num \div den ELSE (0 - num) \div (0 - den)
             index == IF floor < PaletteSize - 1 THEN floor ELSE PaletteSize - 1
         IN  IF index > 0 THEN index ELSE 0

\* the local `price` of styleFeature: `data && data[year]` followed by
\* `parseFloat(data[year]) || 0`, with no test of the sign
StylePrice(data, zip, year) ==
    IF zip \in DOMAIN data /\ year \in DOMAIN data[zip]
    THEN data[zip][year]
    ELSE 0

\* fillColor of the style styleFeature returns
styleFeature(zip, data, year, range) == getColor(StylePrice(data, zip, year), range)

\* the fill colours of a layer over a state's file after setStyle(styleFeature)
StyleOf(stateAbbr, data, year, range) ==
    [zip \in Features(stateAbbr) |-> styleFeature(zip, data, year, range)]

\* AppState.nationalPriceRange after calculateNationalPriceRanges()
LoadedNational == calculateNationalPriceRanges(LoadedData)

\* calculatePriceRange + applyPriceRange + styleFeature for every feature of
\* the file of `layerState`, with the range taken over the file `geojson`
Styling(geojson, layerState, data, national, year, mode) ==
    LET range == applyPriceRange(calculatePriceRange(geojson, data, year),
                                 mode, national, year)
    IN  [range |-> range, fill |-> StyleOf(layerState, data, year, range)]

\* Styling over the loaded dataset, evaluated once for the years updateYear
\* can be called with
StylingTable ==
    [geojson \in STATES, layerState \in STATES,
     year \in (MinYear - 1)..(MaxYear + 1), mode \in {"state", "national"} |->
        Styling(geojson, layerState, LoadedData, LoadedNational, year, mode)]

(***************************************************************************)
(* State.                                                                  *)
(***************************************************************************)
VARIABLES
    \* AppState
    currentLayer,        \* id of the layer, 0: null
    currentGeoJSON,      \* state whose file is cached, NoRegion: null
    zhviData,
    currentYear,
    currentState,
    isPlaying,
    playInterval,        \* handle of the last interval set, 0: null
    priceRange,
    scaleMode,
    nationalPriceRange,
    isDataLoaded,
    \* the environment of the program
    startup,             \* init: "loading", "listening" (setupEventListeners
                         \* has run) or "failed" (loadZHVIData was rejected)
    mapLayers,           \* layers on the Leaflet map: id -> [state, fill]
    timers,              \* handles of the intervals scheduled
    pending,             \* renderState calls suspended at their fetch
    searchResult,        \* how the last searchZipCode call ended: the text it
                         \* put in Elements.searchError, or "TypeError" when
                         \* it threw instead
    \* bookkeeping
    fetchCount,          \* calls of fetch() for a geometry file
    selectCalls          \* calls of renderState with a state abbreviation

vars == <<currentLayer, currentGeoJSON, zhviData, currentYear, currentState,
          isPlaying, playInterval, priceRange, scaleMode, nationalPriceRange,
          isDataLoaded, startup, mapLayers, timers, pending, searchResult,
          fetchCount, selectCalls>>

\* the variables no handler but the dataset load writes
dataVars == <<zhviData, nationalPriceRange, isDataLoaded, startup>>
\* the variables of the year and the styling
yearVars == <<currentYear, priceRange, mapLayers>>
\* the variables of the animation
playVars == <<isPlaying, playInterval, timers>>
\* the variables of the region and its geometry
regionVars == <<currentLayer, currentGeoJSON, currentState, pending,
                fetchCount, selectCalls>>

\* the values of the year slider (an input of type range over the timeline)
SliderYears == {MinYear, 2010, 2020, MaxYear}
\* the values the ZIP field can hold: at most five digits
ZipInputs == {Z90001, Z90009, Z75001, Z99999, <<9, 0, 0, 0>>, <<>>}

Init ==
    /\ currentLayer = 0
    /\ currentGeoJSON = NoRegion
    /\ zhviData = <<>>
    /\ currentYear = MinYear
    /\ currentState = NoRegion
    /\ isPlaying = FALSE
    /\ playInterval = 0
    /\ priceRange = [min |-> 0, max |-> EmptyRangeMax]
    /\ scaleMode = "state"
    /\ nationalPriceRange = <<>>
    /\ isDataLoaded = FALSE
    /\ startup = "loading"
    /\ mapLayers = <<>>
    /\ timers = {}
    /\ pending = {}
    /\ searchResult = ""
    /\ fetchCount = 0
    /\ selectCalls = 0

(***************************************************************************)
(* init and loadZHVIData.                                                  *)
(***************************************************************************)
\* Papa.parse calls `complete`; init resumes and wires the listeners
LoadComplete ==
    /\ startup = "loading"
    /\ zhviData' = LoadedData
    /\ isDataLoaded' = TRUE
    /\ nationalPriceRange' = LoadedNational
    /\ startup' = "listening"
    /\ UNCHANGED <<yearVars, playVars, regionVars, searchResult, scaleMode>>

\* an init that catches the rejection and wires the listeners all the same
LoadError_wiresListeners ==
    /\ startup = "loading"
    /\ startup' = "listening"
    /\ UNCHANGED <<zhviData, nationalPriceRange, isDataLoaded, yearVars, playVars, regionVars, searchResult, scaleMode>>

\* Papa.parse calls `error`; init is rejected before setupEventListeners
LoadError ==
    /\ startup = "loading"
    /\ startup' = "failed"
    /\ UNCHANGED <<zhviData, nationalPriceRange, isDataLoaded, yearVars, playVars, regionVars, searchResult, scaleMode>>

(***************************************************************************)
(* The functions of the controller.  Each states the variables it may      *)
(* write; the handler that calls it leaves the others unchanged.           *)
(***************************************************************************)
\* calculatePriceRange + applyPriceRange + setStyle(styleFeature) on the
\* layer `layer`, as renderState, updateYear and setScaleMode run them
Restyled(layers, layer, geojson, year, mode) ==
    LET s == IF /\ zhviData = LoadedData /\ nationalPriceRange = LoadedNational
                /\ <<geojson, layers[layer].state, year, mode>> \in DOMAIN StylingTable
             THEN StylingTable[geojson, layers[layer].state, year, mode]
             ELSE Styling(geojson, layers[layer].state, zhviData,
                          nationalPriceRange, year, mode)
    IN  [range |-> s.range, layers |-> [layers EXCEPT ![layer].fill = s.fill]]

\* writes yearVars
updateYear(year) ==
    /\ currentYear' = year
    /\ IF currentLayer # 0 /\ currentGeoJSON # NoRegion
       THEN LET r == Restyled(mapLayers, currentLayer, currentGeoJSON, year, scaleMode)
            IN  priceRange' = r.range /\ mapLayers' = r.layers
       ELSE UNCHANGED <<priceRange, mapLayers>>

\* writes scaleMode, priceRange, mapLayers
setScaleMode(mode) ==
    /\ scaleMode' = mode
    /\ IF currentLayer # 0 /\ currentGeoJSON # NoRegion
       THEN LET r == Restyled(mapLayers, currentLayer, currentGeoJSON, currentYear, mode)
            IN  priceRange' = r.range /\ mapLayers' = r.layers
       ELSE UNCHANGED <<priceRange, mapLayers>>

\* the handle setInterval returns: one that no scheduled interval has
FreshTimer == CHOOSE n \in 1..MaxTimers :
                 /\ n \notin timers
                 /\ \A m \in 1..MaxTimers : m \notin timers => n <= m

\* togglePlay whose stop branch forgets clearInterval
togglePlay_keepsInterval ==
    IF isPlaying
    THEN /\ isPlaying' = FALSE
         /\ UNCHANGED <<timers, playInterval, yearVars>>
    ELSE /\ timers # 1..MaxTimers
         /\ isPlaying' = TRUE
         /\ IF currentYear >= MaxYear
            THEN updateYear(MinYear)
            ELSE UNCHANGED yearVars
         /\ playInterval' = FreshTimer
         /\ timers' = timers \cup {FreshTimer}

\* togglePlay whose play branch does not rewind at the end of the timeline
togglePlay_noRewind ==
    IF isPlaying
    THEN /\ timers' = timers \ {playInterval}
         /\ isPlaying' = FALSE
         /\ UNCHANGED <<playInterval, yearVars>>
    ELSE /\ timers # 1..MaxTimers
         /\ isPlaying' = TRUE
         /\ UNCHANGED yearVars
         /\ playInterval' = FreshTimer
         /\ timers' = timers \cup {FreshTimer}

\* writes playVars and yearVars
togglePlay ==
    IF isPlaying
    THEN /\ timers' = timers \ {playInterval}
         /\ isPlaying' = FALSE
         /\ UNCHANGED <<playInterval, yearVars>>
    ELSE /\ timers # 1..MaxTimers
         /\ isPlaying' = TRUE
         /\ IF currentYear >= MaxYear
            THEN updateYear(MinYear)
            ELSE UNCHANGED yearVars
         /\ playInterval' = FreshTimer
         /\ timers' = timers \cup {FreshTimer}

\* the callback that returns at the end of the timeline without stopping
intervalCallback_noStop ==
    IF currentYear >= MaxYear
    THEN UNCHANGED <<playVars, yearVars>>
    ELSE updateYear(currentYear + 1) /\ UNCHANGED playVars

\* the callback that clears the flag at the end of the timeline and leaves
\* its interval scheduled
intervalCallback_flagOnly ==
    IF currentYear >= MaxYear
    THEN isPlaying' = FALSE /\ UNCHANGED <<playInterval, timers, yearVars>>
    ELSE updateYear(currentYear + 1) /\ UNCHANGED playVars

\* the callback of the interval; writes playVars and yearVars
intervalCallback ==
    IF currentYear >= MaxYear
    THEN togglePlay
    ELSE updateYear(currentYear + 1) /\ UNCHANGED playVars

\* renderState up to `await loadStateGeoJSON`, fetch() included;
\* writes regionVars and mapLayers
renderStateBegin(stateAbbr, zip) ==
    /\ currentState' = stateAbbr
    /\ mapLayers' = [l \in DOMAIN mapLayers \ {currentLayer} |-> mapLayers[l]]
    /\ currentLayer' = 0
    /\ selectCalls' = selectCalls + 1
    /\ fetchCount' = fetchCount + 1
    /\ pending' = pending \cup
                    {[id |-> fetchCount + 1, state |-> stateAbbr, zip |-> zip]}
    /\ UNCHANGED currentGeoJSON

\* how searchZipCode ends from `AppState.currentLayer.eachLayer` on, given
\* the layer and the map the call finds
findZip(zip, layer, layers) ==
    IF layer = 0 THEN "TypeError"
    ELSE IF zip \notin Features(layers[layer].state) THEN "boundary not found"
    ELSE IF zip \in DOMAIN zhviData THEN "found"
    ELSE "no price data"

\* renderState after a fetch that delivered the file, and the rest of the
\* searchZipCode call that awaits it; writes currentGeoJSON, currentLayer,
\* priceRange, mapLayers, searchResult
renderStateResume(req) ==
    LET added == [l \in DOMAIN mapLayers \cup {req.id} |->
                    IF l = req.id THEN [state |-> req.state, fill |-> <<>>]
                    ELSE mapLayers[l]]
        r     == Restyled(added, req.id, req.state, currentYear, scaleMode)
    IN  /\ currentGeoJSON' = req.state
        /\ currentLayer' = req.id
        /\ priceRange' = r.range
        /\ mapLayers' = r.layers
        /\ searchResult' = IF req.zip = NoZip THEN searchResult
                           ELSE findZip(req.zip, req.id, r.layers)

\* renderState after a fetch that failed (loadStateGeoJSON returned null),
\* and the rest of the searchZipCode call that awaits it
renderStateAbort(req) ==
    /\ UNCHANGED <<currentGeoJSON, currentLayer, priceRange, mapLayers>>
    /\ searchResult' = IF req.zip = NoZip THEN searchResult
                       ELSE findZip(req.zip, currentLayer, mapLayers)

\* searchZipCode that records the state it looked up before it tests it
searchZipCode_recordsLookup(zip) ==
    IF zip = <<>> \/ Len(zip) # ZipLength
    THEN /\ searchResult' = "invalid"
         /\ UNCHANGED <<regionVars, mapLayers>>
    ELSE IF getStateFromZip(zip) \notin STATES
    THEN /\ searchResult' = "not in database"
         /\ currentState' = getStateFromZip(zip)
         /\ UNCHANGED <<currentLayer, currentGeoJSON, pending, fetchCount,
                        selectCalls, mapLayers>>
    ELSE IF currentState # getStateFromZip(zip)
    THEN /\ fetchCount < MaxFetches
         /\ renderStateBegin(getStateFromZip(zip), zip)
         /\ UNCHANGED searchResult
    ELSE /\ searchResult' = findZip(zip, currentLayer, mapLayers)
         /\ UNCHANGED <<regionVars, mapLayers>>

\* writes regionVars, mapLayers, searchResult
searchZipCode(zip) ==
    IF zip = <<>> \/ Len(zip) # ZipLength
    THEN /\ searchResult' = "invalid"
         /\ UNCHANGED <<regionVars, mapLayers>>
    ELSE IF getStateFromZip(zip) \notin STATES
    THEN /\ searchResult' = "not in database"
         /\ UNCHANGED <<regionVars, mapLayers>>
    ELSE IF currentState # getStateFromZip(zip)
    THEN /\ fetchCount < MaxFetches
         /\ renderStateBegin(getStateFromZip(zip), zip)
         /\ UNCHANGED searchResult
    ELSE /\ searchResult' = findZip(zip, currentLayer, mapLayers)
         /\ UNCHANGED <<regionVars, mapLayers>>

(***************************************************************************)
(* Actions: the events of the page.                                        *)
(***************************************************************************)
\* `change` of the state dropdown
SelectState(stateAbbr) ==
    /\ startup = "listening"
    /\ IF stateAbbr = NoRegion
       THEN UNCHANGED <<regionVars, mapLayers>>
       ELSE fetchCount < MaxFetches /\ renderStateBegin(stateAbbr, NoZip)
    /\ UNCHANGED <<dataVars, playVars, searchResult, currentYear, priceRange, scaleMode>>

\* a slider listener that keeps the range it applied in the national table
SlideYear_storesRange(year) ==
    /\ startup = "listening"
    /\ updateYear(year)
    /\ nationalPriceRange' = [y \in DOMAIN nationalPriceRange \cup {year} |->
                                 IF y = year THEN priceRange' ELSE nationalPriceRange[y]]
    /\ UNCHANGED <<zhviData, isDataLoaded, startup, playVars, regionVars,
                   searchResult, scaleMode>>

\* `input` of the year slider
SlideYear(year) ==
    /\ startup = "listening"
    /\ updateYear(year)
    /\ UNCHANGED <<dataVars, playVars, regionVars, searchResult, scaleMode>>

\* `click` of a scale button
ClickScale(mode) ==
    /\ startup = "listening"
    /\ setScaleMode(mode)
    /\ UNCHANGED <<dataVars, playVars, regionVars, searchResult, currentYear>>

\* `click` of the play button
ClickPlay ==
    /\ startup = "listening"
    /\ togglePlay
    /\ UNCHANGED <<dataVars, regionVars, searchResult, scaleMode>>

\* the interval `timer` fires
TimerTick(timer) ==
    /\ timer \in timers
    /\ intervalCallback
    /\ UNCHANGED <<dataVars, regionVars, searchResult, scaleMode>>

\* `click` of the search button, or Enter in the ZIP field
SearchZip(zip) ==
    /\ startup = "listening"
    /\ searchZipCode(zip)
    /\ UNCHANGED <<dataVars, playVars, currentYear, priceRange, scaleMode>>

\* the fetch of a suspended renderState call delivers the file
FetchResolve(req) ==
    /\ req \in pending
    /\ pending' = pending \ {req}
    /\ renderStateResume(req)
    /\ UNCHANGED <<dataVars, playVars, currentYear, currentState, scaleMode,
                   fetchCount, selectCalls>>

\* a failed fetch that loadStateGeoJSON tries once more
FetchReject_retries(req) ==
    /\ req \in pending
    /\ fetchCount < MaxFetches
    /\ pending' = (pending \ {req}) \cup {[req EXCEPT !.id = fetchCount + 1]}
    /\ fetchCount' = fetchCount + 1
    /\ UNCHANGED <<dataVars, playVars, yearVars, currentLayer, currentGeoJSON,
                   currentState, scaleMode, searchResult, selectCalls>>

\* the fetch of a suspended renderState call fails
FetchReject(req) ==
    /\ req \in pending
    /\ pending' = pending \ {req}
    /\ renderStateAbort(req)
    /\ UNCHANGED <<dataVars, playVars, currentYear, currentState, scaleMode,
                   fetchCount, selectCalls>>

\* some scheduled interval fires
AnyTick == \E timer \in 1..MaxTimers : TimerTick(timer)

Requests ==
    [id : 1..(MaxFetches + 1), state : STATES, zip : ZipInputs \cup {NoZip}]

Next ==
    \/ LoadComplete
    \/ LoadError
    \/ \E stateAbbr \in STATES \cup {NoRegion} : SelectState(stateAbbr)
    \/ \E year \in SliderYears : SlideYear(year)
    \/ \E mode \in {"state", "national"} : ClickScale(mode)
    \/ ClickPlay
    \/ \E timer \in 1..MaxTimers : TimerTick(timer)
    \/ \E zip \in ZipInputs : SearchZip(zip)
    \/ \E req \in Requests : FetchResolve(req)
    \/ \E req \in Requests : FetchReject(req)

Spec == Init /\ [][Next]_vars

(***************************************************************************)
(* The same handlers under narrower environments.                          *)
(***************************************************************************)
\* the user never searches a ZIP
NextPlay ==
    \/ LoadComplete
    \/ LoadError
    \/ \E stateAbbr \in STATES \cup {NoRegion} : SelectState(stateAbbr)
    \/ \E year \in SliderYears : SlideYear(year)
    \/ \E mode \in {"state", "national"} : ClickScale(mode)
    \/ ClickPlay
    \/ \E timer \in 1..MaxTimers : TimerTick(timer)
    \/ \E req \in Requests : FetchResolve(req)
    \/ \E req \in Requests : FetchReject(req)

SpecPlay == Init /\ [][NextPlay]_vars

\* the user selects a state or searches a ZIP only when no fetch is in flight
NextSerial ==
    \/ LoadComplete
    \/ LoadError
    \/ \E stateAbbr \in STATES \cup {NoRegion} : pending = {} /\ SelectState(stateAbbr)
    \/ \E year \in SliderYears : SlideYear(year)
    \/ \E mode \in {"state", "national"} : ClickScale(mode)
    \/ ClickPlay
    \/ \E timer \in 1..MaxTimers : TimerTick(timer)
    \/ \E zip \in ZipInputs : pending = {} /\ SearchZip(zip)
    \/ \E req \in Requests : FetchResolve(req)
    \/ \E req \in Requests : FetchReject(req)

SpecSerial == Init /\ [][NextSerial]_vars

\* the user touches nothing while the animation plays, and the browser
\* fires a scheduled interval again and again
NextAuto ==
    \/ LoadComplete
    \/ LoadError
    \/ \E stateAbbr \in STATES \cup {NoRegion} : ~isPlaying /\ SelectState(stateAbbr)
    \/ \E year \in SliderYears : ~isPlaying /\ SlideYear(year)
    \/ \E mode \in {"state", "national"} : ~isPlaying /\ ClickScale(mode)
    \/ ~isPlaying /\ ClickPlay
    \/ \E timer \in 1..MaxTimers : TimerTick(timer)
    \/ \E req \in Requests : FetchResolve(req)
    \/ \E req \in Requests : FetchReject(req)

SpecAuto ==
    Init /\ [][NextAuto]_vars /\ WF_vars(\E timer \in 1..MaxTimers : TimerTick(timer))

\* updateYear called with any integer, as its signature allows
AnyYears == SliderYears \cup {MinYear - 1, MaxYear + 1}

NextAnyYear ==
    \/ LoadComplete
    \/ LoadError
    \/ \E stateAbbr \in STATES \cup {NoRegion} : SelectState(stateAbbr)
    \/ \E year \in AnyYears : SlideYear(year)
    \/ \E mode \in {"state", "national"} : ClickScale(mode)
    \/ ClickPlay
    \/ \E timer \in 1..MaxTimers : TimerTick(timer)
    \/ \E req \in Requests : FetchResolve(req)
    \/ \E req \in Requests : FetchReject(req)

SpecAnyYear == Init /\ [][NextAnyYear]_vars

(***************************************************************************)
(* The styling functions over a family of datasets: calculatePriceRange,   *)
(* calculateNationalPriceRanges, applyPriceRange, getColor and             *)
(* styleFeature, applied by updateYear and setScaleMode to a rendered      *)
(* layer.                                                                  *)
(***************************************************************************)
\* the files a layer is rendered from
StyleStates == STATES \cup {"WI"}

\* the position of a ZIP within its file
FeatureRank(zip) == zip[3] * 100 + zip[4] * 10 + zip[5]

\* a CSV whose prices start at lo + step * rank, are 100000 higher from 2010
\* on, are missing from 2020 to 2024 and are 100000 lower in 2025; like the
\* loaded file it has no row for 75001
PriceTable(lo, step) ==
    [zip \in Features("CA") \cup {Z73301} \cup Features("WI") |->
        [y \in Years |->
            IF y < 2010 THEN lo + step * FeatureRank(zip)
            ELSE IF y < 2020 THEN lo + 100000 + step * FeatureRank(zip)
            ELSE IF y < MaxYear THEN 0
            ELSE lo - 100000 + step * FeatureRank(zip)]]

\* equal prices (step 0), rising prices, prices below and around zero
Datasets ==
    {PriceTable(lo, step) : lo \in {-100000, 0, 100000}, step \in {0, 10000}}

\* the state after loadZHVIData has loaded one of the datasets
InitStyle ==
    \E data \in Datasets :
        /\ zhviData = data
        /\ nationalPriceRange = calculateNationalPriceRanges(data)
        /\ isDataLoaded = TRUE
        /\ startup = "listening"
        /\ currentLayer = 0
        /\ currentGeoJSON = NoRegion
        /\ currentYear = MinYear
        /\ currentState = NoRegion
        /\ isPlaying = FALSE
        /\ playInterval = 0
        /\ priceRange = [min |-> 0, max |-> EmptyRangeMax]
        /\ scaleMode = "state"
        /\ mapLayers = <<>>
        /\ timers = {}
        /\ pending = {}
        /\ searchResult = ""
        /\ fetchCount = 0
        /\ selectCalls = 0

\* a state is selected when no fetch is in flight, every fetch delivers its
\* file, and the user moves the year slider and clicks the scale buttons
NextStyle ==
    \/ \E stateAbbr \in StyleStates : pending = {} /\ SelectState(stateAbbr)
    \/ \E year \in SliderYears : SlideYear(year)
    \/ \E mode \in {"state", "national"} : ClickScale(mode)
    \/ \E req \in [id : 1..(MaxFetches + 1), state : StyleStates, zip : {NoZip}] :
           FetchResolve(req)

SpecStyle == InitStyle /\ [][NextStyle]_vars

(***************************************************************************)
(* Properties.                                                             *)
(***************************************************************************)
\* C1: once no fetch is in flight, a layer on the map and the cached
\* geometry are those of the state selected last: the response to an
\* earlier selectRegion is never committed after a later selectRegion.
C1_StaleResponseGuard ==
    (pending = {} /\ currentLayer # 0) =>
        /\ currentGeoJSON = currentState
        /\ \A l \in DOMAIN mapLayers : mapLayers[l].state = currentState

\* C2: a failed fetch leaves the region rendered before untouched: when no
\* fetch is in flight and a geometry is cached, its layer is on the map.
C2_FailedFetchKeepsLayer ==
    (pending = {} /\ currentGeoJSON # NoRegion) =>
        /\ currentLayer # 0
        /\ currentLayer \in DOMAIN mapLayers
        /\ mapLayers[currentLayer].state = currentGeoJSON

\* C3: selecting a state while the animation plays stops it: the playing
\* flag is false and no interval is scheduled after the call.
C3_SelectCancelsTimer ==
    [][(isPlaying /\ \E stateAbbr \in STATES : SelectState(stateAbbr))
          => (~isPlaying' /\ timers' = {})]_vars

\* C4: a click on the play button while playing clears the flag and leaves
\* no interval scheduled; while the flag is false no interval is scheduled
\* and no step is a timer tick.
C4_PauseCancelsTimer ==
    [][/\ (isPlaying /\ ClickPlay) => (~isPlaying' /\ timers' = {})
       /\ ~isPlaying' => timers' = {}
       /\ ~isPlaying => ~AnyTick]_vars

\* a paused animation: 2001 is reached by a tick only, and the animation
\* stops by itself only at 2025
C4_Witness ==
    ~isPlaying /\ playInterval # 0 /\ timers = {} /\ currentYear = MinYear + 1

\* C5: fetches are started by renderState calls only, one each: the two
\* counts are equal, a step that starts a fetch changes neither year, scale
\* mode nor animation, a step that ends one without a file starts no other,
\* and the cached geometry changes only when a fetch delivers it.
C5_FetchOnlyOnSelect ==
    [][/\ fetchCount' = selectCalls'
       /\ fetchCount' # fetchCount =>
            /\ fetchCount' = fetchCount + 1
            /\ pending' = pending \cup (pending' \ pending)
            /\ UNCHANGED <<currentYear, scaleMode, isPlaying, timers>>
       /\ currentGeoJSON' # currentGeoJSON =>
            \E req \in pending :
                /\ pending' = pending \ {req}
                /\ currentGeoJSON' = req.state
                /\ fetchCount' = fetchCount]_vars

\* two selections, the second failed and was not tried again, while the
\* year was moved by the timer and the scale mode was changed
C5_Witness ==
    /\ fetchCount = 2 /\ selectCalls = 2 /\ pending = {}
    /\ currentLayer = 0 /\ currentGeoJSON # NoRegion
    /\ currentYear = MinYear + 1 /\ scaleMode = "national"

\* C6: no searchZipCode call ends with an uncaught exception.
C6_SearchNeverThrows == searchResult # "TypeError"

\* C7: a playing animation stops by itself at 2025, with its interval
\* cleared, and no timer tick moves the year beyond 2025.
C7_AutoStop ==
    /\ isPlaying ~> (~isPlaying /\ timers = {} /\ currentYear = MaxYear)
    /\ [][AnyTick => currentYear' <= MaxYear]_vars

\* an animation that was started and has stopped at 2025
C7_Witness ==
    ~isPlaying /\ playInterval # 0 /\ timers = {} /\ currentYear = MaxYear

\* C8: a step that starts the animation at 2025 sets the year to 2000, and
\* a timer tick that changes the year adds exactly 1 to it.
C8_RewindAndStep ==
    [][/\ (~isPlaying /\ isPlaying' /\ currentYear >= MaxYear)
            => currentYear' = MinYear
       /\ (AnyTick /\ currentYear' # currentYear)
            => currentYear' = currentYear + 1]_vars

\* the animation runs and has ticked from 2000 to 2001
C8_Witness == isPlaying /\ timers # {} /\ currentYear = MinYear + 1

\* C9: the current year is within [2000, 2025] whatever integer updateYear
\* is called with.
C9_YearInRange == currentYear \in Years

\* C10: with no fetch in flight and no layer shown the controller is Idle:
\* no state is recorded as selected.
C10_FailedFetchReturnsToIdle ==
    (pending = {} /\ currentLayer = 0) => currentState = NoRegion

\* C11: whenever a layer is shown, the active range is the national range of
\* the current year in national mode and the percentile range over the
\* cached geometry for the current year otherwise, and the fill of every
\* feature on the map is the colour of its price of the current year in
\* that range.
C11_RangeFollowsScale ==
    currentLayer # 0 =>
        LET stateRange == calculatePriceRange(currentGeoJSON, zhviData, currentYear)
        IN  /\ priceRange =
                   IF scaleMode = "national"
                   THEN nationalPriceRange[currentYear]
                   ELSE [min |-> stateRange.min, max |-> stateRange.max]
            /\ \A l \in DOMAIN mapLayers :
                   \A zip \in Features(mapLayers[l].state) :
                       mapLayers[l].fill[zip] =
                           getColor(StylePrice(zhviData, zip, currentYear), priceRange)

\* C12: a search for a ZIP that has not five characters, or that the lookup
\* maps to no state, reports the error and changes nothing else: region,
\* cached geometry, layers, year, scale mode, animation and active range
\* stay as they are, and no fetch is started.
C12_BadZipChangesNothing ==
    [][\A zip \in ZipInputs :
          (SearchZip(zip) /\ (Len(zip) # ZipLength \/ getStateFromZip(zip) \notin STATES))
              => /\ searchResult' = (IF Len(zip) # ZipLength THEN "invalid"
                                     ELSE "not in database")
                 /\ UNCHANGED <<currentState, currentGeoJSON, currentLayer,
                                mapLayers, currentYear, scaleMode, isPlaying,
                                timers, priceRange, fetchCount, pending>>]_vars

\* a search was refused while a layer was shown and the animation played
C12_Witness ==
    /\ searchResult = "not in database"
    /\ currentLayer # 0 /\ currentState # NoRegion
    /\ isPlaying /\ currentYear = MinYear + 1

\* C13: when the active range has min = max, every feature of the layer
\* with a positive price, a price equal to min included, is filled with one
\* and the same colour of the palette.
C13_DegenerateRangeOneBucket ==
    (currentLayer # 0 /\ priceRange.min = priceRange.max) =>
        \E bucket \in 0..(PaletteSize - 1) :
            \A zip \in Features(mapLayers[currentLayer].state) :
                StylePrice(zhviData, zip, currentYear) > 0
                    => mapLayers[currentLayer].fill[zip] = bucket

\* C14: within the active range the colour index never falls as the price
\* rises, over the positive prices of the dataset in the current year, and
\* the fill of every feature with a positive price is an index of the
\* palette; with min < max a price at or below min has index 0 and a price
\* at or above max the last index.
C14_ColorMonotonic ==
    currentLayer # 0 =>
        LET prices == {StylePrice(zhviData, zip, currentYear) : zip \in DOMAIN zhviData}
                         \cap {p \in Int : p > 0}
        IN  /\ \A p1, p2 \in prices :
                   p1 < p2 => getColor(p1, priceRange) <= getColor(p2, priceRange)
            /\ \A zip \in Features(mapLayers[currentLayer].state) :
                   StylePrice(zhviData, zip, currentYear) > 0
                       => mapLayers[currentLayer].fill[zip] \in 0..(PaletteSize - 1)
            /\ priceRange.min < priceRange.max =>
                   \A p \in prices :
                       /\ p <= priceRange.min => getColor(p, priceRange) = 0
                       /\ p >= priceRange.max => getColor(p, priceRange) = PaletteSize - 1

\* C15: a feature whose price of the current year is absent, zero or
\* negative is filled with the no-data colour, whatever the active range
\* and the scale mode.
C15_NoDataColor ==
    currentLayer # 0 =>
        \A zip \in Features(mapLayers[currentLayer].state) :
            (zip \notin DOMAIN zhviData \/ zhviData[zip][currentYear] <= 0)
                => mapLayers[currentLayer].fill[zip] = NoDataColor

\* the features of the cached file with a positive price in the current year
PricedZips ==
    {zip \in Features(currentGeoJSON) :
        zip \in DOMAIN zhviData /\ zhviData[zip][currentYear] > 0}

\* v is the element at index i (from 0) of the ascending list of the prices
\* of PricedZips: at most i prices are below v and more than i are not above
AtIndex(v, i) ==
    /\ Cardinality({zip \in PricedZips : zhviData[zip][currentYear] < v}) <= i
    /\ Cardinality({zip \in PricedZips : zhviData[zip][currentYear] <= v}) > i

\* C16: over a file with n > 0 positive prices calculatePriceRange returns
\* lowest <= min <= median <= max <= highest, where min, median and max are
\* the sorted prices at the indices floor(n * 0.05), floor(n * 0.5) and
\* floor(n * 0.95), lowest and highest the first and the last, count = n;
\* in state mode the active range is its min and max.
C16_RangeOrdered ==
    (currentLayer # 0 /\ PricedZips # {}) =>
        LET r == calculatePriceRange(currentGeoJSON, zhviData, currentYear)
            n == Cardinality(PricedZips)
        IN  /\ r.lowest <= r.min /\ r.min <= r.median
            /\ r.median <= r.max /\ r.max <= r.highest
            /\ AtIndex(r.min, (n * 5) \div 100)
            /\ AtIndex(r.median, (n * 50) \div 100)
            /\ AtIndex(r.max, (n * 95) \div 100)
            /\ AtIndex(r.lowest, 0)
            /\ AtIndex(r.highest, n - 1)
            /\ r.count = n
            /\ scaleMode = "state" => priceRange = [min |-> r.min, max |-> r.max]

\* a file of at least twenty prices, where the five values differ
C16_Witness ==
    /\ currentLayer # 0 /\ scaleMode = "state"
    /\ Cardinality(PricedZips) >= 20
    /\ LET r == calculatePriceRange(currentGeoJSON, zhviData, currentYear)
       IN  /\ r.lowest < r.min /\ r.min < r.median
           /\ r.median < r.max /\ r.max < r.highest
           /\ priceRange = [min |-> r.min, max |-> r.max]

\* C17: when no feature of the cached file has a positive price in the
\* current year, calculatePriceRange returns min 0, max 1000000, median 0
\* and count 0, and in state mode the active range is 0..1000000.
C17_EmptyRangeFallback ==
    (currentLayer # 0 /\ PricedZips = {}) =>
        LET r == calculatePriceRange(currentGeoJSON, zhviData, currentYear)
        IN  /\ r.min = 0 /\ r.max = 1000000
            /\ r.median = 0 /\ r.count = 0
            /\ scaleMode = "state" => priceRange = [min |-> 0, max |-> 1000000]

\* the file of WI rendered in state mode in a year without prices, after a
\* year with prices
C17_Witness ==
    /\ currentLayer # 0 /\ currentGeoJSON = "WI" /\ scaleMode = "state"
    /\ currentYear = 2020 /\ PricedZips = {}
    /\ priceRange = [min |-> 0, max |-> 1000000]

\* C18: in national mode, in a year for which the dataset has no positive
\* price or the national table has no entry, the active range of a shown
\* layer is the range of an empty price list, 0..1000000.
C18_NationalEmptyDefault ==
    (/\ currentLayer # 0
     /\ scaleMode = "national"
     /\ \/ currentYear \notin DOMAIN nationalPriceRange
        \/ \A zip \in DOMAIN zhviData : zhviData[zip][currentYear] <= 0)
        => priceRange = [min |-> 0, max |-> 1000000]

\* a step of a handler the user or the browser starts after startup
InteractiveStep ==
    \/ \E stateAbbr \in STATES \cup {NoRegion} : SelectState(stateAbbr)
    \/ \E year \in SliderYears : SlideYear(year)
    \/ \E mode \in {"state", "national"} : ClickScale(mode)
    \/ ClickPlay
    \/ \E zip \in ZipInputs : SearchZip(zip)

\* C19: the price dataset and the national table are written by the dataset
\* load only: every step of an interactive handler, of the timer and of a
\* fetch completion leaves both unchanged, and so does every step taken
\* once the dataset is loaded.
C19_DataWrittenOnce ==
    [][/\ (\/ InteractiveStep
           \/ AnyTick
           \/ \E req \in Requests : FetchResolve(req) \/ FetchReject(req))
              => UNCHANGED <<zhviData, nationalPriceRange>>
       /\ isDataLoaded => UNCHANGED <<zhviData, nationalPriceRange, isDataLoaded>>
       /\ ~isDataLoaded => (zhviData = <<>> /\ nationalPriceRange = <<>>)]_vars

\* the loaded dataset and table after a selection, a scale click, a tick
\* and a search
C19_Witness ==
    /\ zhviData = LoadedData /\ nationalPriceRange = LoadedNational
    /\ currentLayer # 0 /\ scaleMode = "national"
    /\ currentYear = MinYear + 1 /\ searchResult = "found"

\* C20: a step of an interactive handler is taken only when the dataset is
\* loaded and the national table holds every year; before the load nothing
\* but the load changes the state; when the load has failed no step is
\* taken at all, and nothing was rendered or fetched.
C20_NoOperationBeforeLoad ==
    [][/\ InteractiveStep =>
            /\ isDataLoaded /\ zhviData # <<>>
            /\ DOMAIN nationalPriceRange = Years
       /\ ~isDataLoaded =>
            UNCHANGED <<yearVars, playVars, regionVars, searchResult, scaleMode>>
       /\ startup = "failed" => UNCHANGED vars
       /\ startup' = "failed" =>
            /\ ~isDataLoaded' /\ mapLayers' = <<>> /\ currentLayer' = 0
            /\ fetchCount' = 0 /\ pending' = {} /\ timers' = {}]_vars

\* every interactive operation has run, after the load
C20_Witness ==
    /\ isDataLoaded /\ startup = "listening"
    /\ selectCalls > 0 /\ isPlaying /\ scaleMode = "national"
    /\ currentYear = 2010 /\ searchResult # ""

\* C21: at most one layer is on the map, and a layer on the map is the
\* current layer: every other layer that was added has been removed.
C21_OneLayerOnMap ==
    /\ Cardinality(DOMAIN mapLayers) <= 1
    /\ \A l \in DOMAIN mapLayers : l = currentLayer

\* C22: the playing flag is true exactly when one interval is scheduled,
\* the one whose handle AppState.playInterval holds: never two intervals,
\* and none while the flag is false.
C22_TimerFlagConsistent ==
    /\ isPlaying <=> Cardinality(timers) = 1
    /\ Cardinality(timers) <= 1
    /\ isPlaying => timers = {playInterval}

\* the animation plays and has ticked to 2001 while the file of a selected
\* state is loading
C22_Witness ==
    /\ isPlaying /\ timers = {playInterval}
    /\ currentYear = MinYear + 1
    /\ selectCalls > 0 /\ pending # {}

\* C23: while a fetch is in flight a move of the slider, a scale click and
\* a tick set the year or the mode and restyle no layer, and the layer a
\* delivered file is rendered into has the range and the colours of the
\* year and the scale mode of the moment of delivery.
C23_LoadingChangesKept ==
    [][/\ \A year \in SliderYears :
            (pending # {} /\ SlideYear(year))
                => (currentYear' = year /\ UNCHANGED <<mapLayers, priceRange>>)
       /\ \A mode \in {"state", "national"} :
            (pending # {} /\ ClickScale(mode))
                => (scaleMode' = mode /\ UNCHANGED <<mapLayers, priceRange>>)
       /\ (pending # {} /\ AnyTick /\ currentYear < MaxYear)
                => (currentYear' = currentYear + 1 /\ UNCHANGED <<mapLayers, priceRange>>)
       /\ \A req \in Requests :
            FetchResolve(req) =>
                LET s == Styling(req.state, req.state, zhviData,
                                 nationalPriceRange, currentYear, scaleMode)
                IN  /\ UNCHANGED <<currentYear, scaleMode>>
                    /\ currentLayer' = req.id
                    /\ priceRange' = s.range
                    /\ mapLayers'[req.id] = [state |-> req.state, fill |-> s.fill]]_vars

====
